---- MODULE Spec2Model ----
(***************************************************************************)
(* Model of the result normalisation and deduplication pipeline of the     *)
(* Bolagsplatsen scraper API (src/api.py): translate_text,                 *)
(* convert_currency and run_scraper.                                       *)
(*                                                                         *)
(* Python values are tagged records [k, s]: k is the kind ("str", "none",  *)
(* "int", or "absent" for a key the mapping does not hold) and s the       *)
(* characters of a str (a tuple of one-character strings) or the decimal   *)
(* digits of an int.  Lists are tuples of such values.                     *)
(***************************************************************************)
EXTENDS Integers, Sequences, FiniteSets, TLC

VARIABLES
    pc,               \* position in the running function
    exc,              \* the exception raised in the function ("none" if none)
    scraped_items,    \* run_scraper: items collected by item_scraped
    transformed_data, \* run_scraper: the transformed items
    seen_titles,      \* run_scraper: titles recorded by the duplicate scan
    seen_links,       \* run_scraper: links recorded by the duplicate scan
    unique_data,      \* run_scraper: the items kept by the duplicate scan
    scan_i,           \* run_scraper: number of items the scan has taken
    result,           \* run_scraper: the returned list
    fn_arg,           \* argument of a direct call of a helper function
    fn_ret            \* its return value

vars == <<pc, exc, scraped_items, transformed_data, seen_titles,
          seen_links, unique_data, scan_i, result, fn_arg, fn_ret>>

(***************************************************************************)
(* Bounds of the exploration.                                              *)
(***************************************************************************)
MaxItems == 3
MaxChunks == 3
MaxPriceLen == 5

(***************************************************************************)
(* Python values.                                                          *)
(***************************************************************************)
Str(s) == [k |-> "str", s |-> s]
None == [k |-> "none", s |-> <<>>]
Absent == [k |-> "absent", s |-> <<>>]
IntVal(digits) == [k |-> "int", s |-> digits]

\* bool(v): None and '' are false, a non-empty str and a non-zero int true.
Truthy(v) == \/ v.k = "str" /\ v.s # <<>>
             \/ v.k = "int" /\ \E i \in 1..Len(v.s) : v.s[i] # "0"

\* item.get(key, default) and item.get(key) on a mapping field.
Get(v, default) == IF v.k = "absent" THEN default ELSE v
GetOrNone(v) == Get(v, None)

RECURSIVE Concat(_)
Concat(ss) == IF ss = <<>> THEN <<>> ELSE Head(ss) \o Concat(Tail(ss))

(***************************************************************************)
(* Characters: the case mappings of str.lower, str.capitalize, str.title.  *)
(***************************************************************************)
LowerOf ==
   ("A" :> "a") @@ ("B" :> "b") @@ ("C" :> "c") @@ ("D" :> "d") @@ ("E" :> "e") @@ ("F" :> "f") @@
   ("G" :> "g") @@ ("H" :> "h") @@ ("I" :> "i") @@ ("J" :> "j") @@ ("K" :> "k") @@ ("L" :> "l") @@
   ("M" :> "m") @@ ("N" :> "n") @@ ("O" :> "o") @@ ("P" :> "p") @@ ("Q" :> "q") @@ ("R" :> "r") @@
   ("S" :> "s") @@ ("T" :> "t") @@ ("U" :> "u") @@ ("V" :> "v") @@ ("W" :> "w") @@ ("X" :> "x") @@
   ("Y" :> "y") @@ ("Z" :> "z") @@ ("Å" :> "å") @@ ("Ä" :> "ä") @@ ("Ö" :> "ö")
UpperOf ==
   ("a" :> "A") @@ ("b" :> "B") @@ ("c" :> "C") @@ ("d" :> "D") @@ ("e" :> "E") @@ ("f" :> "F") @@
   ("g" :> "G") @@ ("h" :> "H") @@ ("i" :> "I") @@ ("j" :> "J") @@ ("k" :> "K") @@ ("l" :> "L") @@
   ("m" :> "M") @@ ("n" :> "N") @@ ("o" :> "O") @@ ("p" :> "P") @@ ("q" :> "Q") @@ ("r" :> "R") @@
   ("s" :> "S") @@ ("t" :> "T") @@ ("u" :> "U") @@ ("v" :> "V") @@ ("w" :> "W") @@ ("x" :> "X") @@
   ("y" :> "Y") @@ ("z" :> "Z") @@ ("å" :> "Å") @@ ("ä" :> "Ä") @@ ("ö" :> "Ö")

LowerChar(c) == IF c \in DOMAIN LowerOf THEN LowerOf[c] ELSE c
UpperChar(c) == IF c \in DOMAIN UpperOf THEN UpperOf[c] ELSE c
IsCased(c) == c \in DOMAIN LowerOf \/ c \in DOMAIN UpperOf

lower(s) == [i \in 1..Len(s) |-> LowerChar(s[i])]

\* str.replace(old, new): every non-overlapping occurrence, left to right.
Occurrences(s, old) ==
    {i \in 1..(Len(s) - Len(old) + 1) : SubSeq(s, i, i + Len(old) - 1) = old}
FirstOccurrence(s, old) ==
    CHOOSE i \in Occurrences(s, old) : \A j \in Occurrences(s, old) : i <= j
RECURSIVE replace(_, _, _)
replace(s, old, new) ==
    IF Occurrences(s, old) = {} THEN s
    ELSE SubSeq(s, 1, FirstOccurrence(s, old) - 1) \o new
         \o replace(SubSeq(s, FirstOccurrence(s, old) + Len(old), Len(s)), old, new)

\* str.capitalize(): first character upper-cased, all others lower-cased.
capitalize(s) ==
    [i \in 1..Len(s) |-> IF i = 1 THEN UpperChar(s[i]) ELSE LowerChar(s[i])]

\* str.title(): a cased character is upper-cased after an uncased one (or at
\* the start) and lower-cased after a cased one.
str_title(s) ==
    [i \in 1..Len(s) |->
        IF i = 1 \/ ~IsCased(s[i - 1]) THEN UpperChar(s[i]) ELSE LowerChar(s[i])]

(***************************************************************************)
(* translate_text                                                          *)
(***************************************************************************)
TRANSLATIONS ==
   <<
      <<<<"f","ö","r","e","t","a","g">>, <<"c","o","m","p","a","n","y">>>>,
      <<<<"v","e","r","k","s","a","m","h","e","t">>, <<"b","u","s","i","n","e","s","s">>>>,
      <<<<"f","i","r","m","a">>, <<"f","i","r","m">>>>,
      <<<<"o","m","s","ä","t","t","n","i","n","g">>, <<"r","e","v","e","n","u","e">>>>,
      <<<<"r","e","s","u","l","t","a","t">>, <<"p","r","o","f","i","t">>>>,
      <<<<"v","i","n","s","t">>, <<"p","r","o","f","i","t">>>>,
      <<<<"f","ö","r","l","u","s","t">>, <<"l","o","s","s">>>>,
      <<<<"i","n","t","ä","k","t","e","r">>, <<"i","n","c","o","m","e">>>>,
      <<<<"k","o","s","t","n","a","d","e","r">>, <<"c","o","s","t","s">>>>,
      <<<<"h","a","n","d","e","l">>, <<"t","r","a","d","e">>>>,
      <<<<"t","i","l","l","v","e","r","k","n","i","n","g">>, <<"m","a","n","u","f","a","c","t","u","r","i","n","g">>>>,
      <<<<"t","j","ä","n","s","t","e","r">>, <<"s","e","r","v","i","c","e","s">>>>,
      <<<<"h","o","t","e","l","l">>, <<"h","o","t","e","l">>>>,
      <<<<"r","e","s","t","a","u","r","a","n","g">>, <<"r","e","s","t","a","u","r","a","n","t">>>>,
      <<<<"e","-","h","a","n","d","e","l">>, <<"e","-","c","o","m","m","e","r","c","e">>>>,
      <<<<"b","y","g","g">>, <<"c","o","n","s","t","r","u","c","t","i","o","n">>>>,
      <<<<"t","r","a","n","s","p","o","r","t">>, <<"t","r","a","n","s","p","o","r","t">>>>,
      <<<<"h","ä","l","s","a">>, <<"h","e","a","l","t","h">>>>,
      <<<<"u","t","b","i","l","d","n","i","n","g">>, <<"e","d","u","c","a","t","i","o","n">>>>,
      <<<<"f","i","n","a","n","s">>, <<"f","i","n","a","n","c","e">>>>,
      <<<<"f","a","s","t","i","g","h","e","t">>, <<"r","e","a","l"," ","e","s","t","a","t","e">>>>,
      <<<<"s","t","o","c","k","h","o","l","m">>, <<"S","t","o","c","k","h","o","l","m">>>>,
      <<<<"g","ö","t","e","b","o","r","g">>, <<"G","o","t","h","e","n","b","u","r","g">>>>,
      <<<<"m","a","l","m","ö">>, <<"M","a","l","m","ö">>>>,
      <<<<"u","p","p","s","a","l","a">>, <<"U","p","p","s","a","l","a">>>>,
      <<<<"v","ä","s","t","e","r","å","s">>, <<"V","ä","s","t","e","r","å","s">>>>,
      <<<<"ö","r","e","b","r","o">>, <<"Ö","r","e","b","r","o">>>>,
      <<<<"l","ö","n","s","a","m","t">>, <<"p","r","o","f","i","t","a","b","l","e">>>>,
      <<<<"o","l","ö","n","s","a","m","t">>, <<"u","n","p","r","o","f","i","t","a","b","l","e">>>>,
      <<<<"n","y","t","t">>, <<"n","e","w">>>>,
      <<<<"e","t","a","b","l","e","r","a","t">>, <<"e","s","t","a","b","l","i","s","h","e","d">>>>,
      <<<<"v","ä","x","a","n","d","e">>, <<"g","r","o","w","i","n","g">>>>,
      <<<<"s","t","a","b","i","l">>, <<"s","t","a","b","l","e">>>>,
      <<<<"t","i","l","l">>, <<"f","o","r">>>>,
      <<<<"s","a","l","u">>, <<"s","a","l","e">>>>,
      <<<<"k","ö","p">>, <<"b","u","y">>>>,
      <<<<"s","ä","l","j">>, <<"s","e","l","l">>>>,
      <<<<"b","r","a">>, <<"g","o","o","d">>>>,
      <<<<"m","y","c","k","e","t">>, <<"v","e","r","y">>>>,
      <<<<"s","t","o","r">>, <<"l","a","r","g","e">>>>,
      <<<<"l","i","t","e","n">>, <<"s","m","a","l","l">>>>
   >>

\* The for loop over TRANSLATIONS.items(), from entry i on.
RECURSIVE ApplyTranslations(_, _)
ApplyTranslations(s, i) ==
    IF s = <<>> \/ i > Len(TRANSLATIONS) THEN s
    ELSE ApplyTranslations(replace(s, TRANSLATIONS[i][1], TRANSLATIONS[i][2]), i + 1)

\* text.lower() exists on a str only: a true non-str raises AttributeError.
translate_text_raises(text) == Truthy(text) /\ text.k # "str"

translate_text(text) ==
    IF ~Truthy(text) THEN text
    ELSE Str(capitalize(ApplyTranslations(lower(text.s), 1)))

(***************************************************************************)
(* convert_currency                                                        *)
(***************************************************************************)
SEK_TO_USD_NUM == 95
SEK_TO_USD_DEN == 1000

DigitVal ==
   ("0" :> 0) @@ ("1" :> 1) @@ ("2" :> 2) @@ ("3" :> 3) @@ ("4" :> 4) @@
   ("5" :> 5) @@ ("6" :> 6) @@ ("7" :> 7) @@ ("8" :> 8) @@ ("9" :> 9)
DigitChar == <<"0", "1", "2", "3", "4", "5", "6", "7", "8", "9">>

\* \d and \s of the re module (the last whitespace is U+00A0, NO-BREAK SPACE).
IsDigit(c) == c \in DOMAIN DigitVal
IsSpace(c) == c \in {" ", "\t", "\n", "\r", "\f", " "}

\* re.findall(r'[\d\s]+', s): the maximal runs of digits and whitespace.
RECURSIVE findall(_, _)
findall(s, run) ==
    IF s = <<>> THEN (IF run = <<>> THEN <<>> ELSE <<run>>)
    ELSE IF IsDigit(Head(s)) \/ IsSpace(Head(s))
         THEN findall(Tail(s), Append(run, Head(s)))
         ELSE (IF run = <<>> THEN <<>> ELSE <<run>>) \o findall(Tail(s), <<>>)

\* .replace(' ', ''): only U+0020 is removed.
RemoveSpaces(s) == SelectSeq(s, LAMBDA c : c # " ")

\* int(s) strips surrounding whitespace and then wants digits only.
lstrip(s) ==
    IF \A i \in 1..Len(s) : IsSpace(s[i]) THEN <<>>
    ELSE SubSeq(s, CHOOSE i \in 1..Len(s) :
                       ~IsSpace(s[i]) /\ \A j \in 1..(i - 1) : IsSpace(s[j]),
                Len(s))
rstrip(s) ==
    IF \A i \in 1..Len(s) : IsSpace(s[i]) THEN <<>>
    ELSE SubSeq(s, 1, CHOOSE i \in 1..Len(s) :
                          ~IsSpace(s[i]) /\ \A j \in (i + 1)..Len(s) : IsSpace(s[j]))
strip(s) == rstrip(lstrip(s))

int_raises(s) ==
    \/ strip(s) = <<>>
    \/ \E i \in 1..Len(strip(s)) : ~IsDigit(strip(s)[i])

RECURSIVE DigitsValue(_)
DigitsValue(ds) ==
    IF ds = <<>> THEN 0
    ELSE 10 * DigitsValue(SubSeq(ds, 1, Len(ds) - 1)) + DigitVal[ds[Len(ds)]]
int(s) == DigitsValue(strip(s))

\* round(price * SEK_TO_USD): round-half-to-even of price * 95 / 1000.  The
\* binary floating-point product rounds to the same integer for every price
\* below 2,000,000, which covers the prices explored here.
round_usd(price) ==
    LET n == price * SEK_TO_USD_NUM
        q == n \div SEK_TO_USD_DEN
        r == n % SEK_TO_USD_DEN
    IN  IF 2 * r > SEK_TO_USD_DEN \/ (2 * r = SEK_TO_USD_DEN /\ q % 2 = 1)
        THEN q + 1 ELSE q

RECURSIVE Decimal(_)
Decimal(n) ==
    IF n < 10 THEN <<DigitChar[n + 1]>>
    ELSE Append(Decimal(n \div 10), DigitChar[(n % 10) + 1])

\* format(n, ','): groups of three digits separated by commas.
RECURSIVE FormatThousands(_)
FormatThousands(n) ==
    IF n < 1000 THEN Decimal(n)
    ELSE FormatThousands(n \div 1000) \o <<",">>
         \o <<DigitChar[((n % 1000) \div 100) + 1],
              DigitChar[((n % 100) \div 10) + 1],
              DigitChar[(n % 10) + 1]>>

\* re.findall wants a str: a true non-str raises TypeError.
convert_currency_raises(price_str) == Truthy(price_str) /\ price_str.k # "str"

convert_currency(price_str) ==
    IF ~Truthy(price_str) THEN price_str
    ELSE LET numbers == findall(price_str.s, <<>>)
             digits == RemoveSpaces(Concat(numbers))
         IN  IF numbers = <<>> THEN price_str
             ELSE IF int_raises(digits) THEN price_str
             ELSE Str(<<"$">> \o FormatThousands(round_usd(int(digits))))

(***************************************************************************)
(* String literals of run_scraper.                                         *)
(***************************************************************************)
BusinessDescription ==
    <<"B","u","s","i","n","e","s","s"," ","D","e","s","c","r","i","p","t","i","o","n">>
FinancialInformation ==
    <<"F","i","n","a","n","c","i","a","l"," ","I","n","f","o","r","m","a","t","i","o","n">>
BusinessMetrics ==
    <<"B","u","s","i","n","e","s","s"," ","M","e","t","r","i","c","s">>
ContactInformation ==
    <<"C","o","n","t","a","c","t"," ","I","n","f","o","r","m","a","t","i","o","n">>
RevenuePrefix ==
    <<"R","e","v","e","n","u","e",":"," ">>
DetailedRevenuePrefix ==
    <<"D","e","t","a","i","l","e","d"," ","R","e","v","e","n","u","e",":"," ">>
ProfitStatusPrefix ==
    <<"P","r","o","f","i","t"," ","S","t","a","t","u","s",":"," ">>
DetailedProfitPrefix ==
    <<"D","e","t","a","i","l","e","d"," ","P","r","o","f","i","t",":"," ">>
AskingPricePrefix ==
    <<"A","s","k","i","n","g"," ","P","r","i","c","e",":"," ">>
EmployeesPrefix ==
    <<"E","m","p","l","o","y","e","e","s",":"," ">>
PhonePrefix ==
    <<"P","h","o","n","e",":"," ">>
EmailPrefix ==
    <<"E","m","a","i","l",":"," ">>
BrokerPrefix ==
    <<"B","r","o","k","e","r",":"," ">>
BrokerCompanyPrefix ==
    <<"B","r","o","k","e","r"," ","C","o","m","p","a","n","y",":"," ">>
ContactViaWebsiteText ==
    <<"C","o","n","t","a","c","t"," ","v","i","a"," ","w","e","b","s","i","t","e">>

(***************************************************************************)
(* run_scraper: transformation of one scraped item.                        *)
(*                                                                         *)
(* A scraped item holds one value per field name; Absent marks a key the   *)
(* item does not have.  financial_details is [k, l] with l the list, and   *)
(* structured_content is [k, m] with m the (key, value) pairs of the       *)
(* mapping in its iteration order.                                         *)
(***************************************************************************)
AbsentList == [k |-> "absent", l |-> <<>>]
List(l) == [k |-> "list", l |-> l]
AbsentMap == [k |-> "absent", m |-> <<>>]
Map(m) == [k |-> "map", m |-> m]

EmptyItem ==
    [title |-> Absent, category |-> Absent, location |-> Absent, price |-> Absent,
     description |-> Absent, full_description |-> Absent,
     structured_content |-> AbsentMap,
     revenue |-> Absent, detailed_revenue |-> Absent, profit_status |-> Absent,
     detailed_profit |-> Absent, financial_details |-> AbsentList,
     employee_count |-> Absent, phone |-> Absent, email |-> Absent,
     broker_name |-> Absent, broker_company |-> Absent, url |-> Absent]

\* a or b
Or(a, b) == IF Truthy(a) THEN a ELSE b

\* f"{prefix}{value}" for a str value.
Line(prefix, value) == Str(prefix \o value.s)

Section(summary, items) == [infoSummary |-> Str(summary), infoItems |-> items]

section_names ==
   <<
      <<<<"c","o","m","p","a","n","y","_","b","r","i","e","f">>,
        <<"C","o","m","p","a","n","y"," ","O","v","e","r","v","i","e","w">>>>,
      <<<<"p","o","t","e","n","t","i","a","l">>,
        <<"G","r","o","w","t","h"," ","P","o","t","e","n","t","i","a","l">>>>,
      <<<<"r","e","a","s","o","n","_","f","o","r","_","s","a","l","e">>,
        <<"R","e","a","s","o","n"," ","f","o","r"," ","S","a","l","e">>>>,
      <<<<"p","r","i","c","e","_","i","d","e","a">>,
        <<"P","r","i","c","i","n","g"," ","D","e","t","a","i","l","s">>>>,
      <<<<"s","u","m","m","a","r","y">>,
        <<"S","u","m","m","a","r","y">>>>,
      <<<<"d","e","s","c","r","i","p","t","i","o","n">>,
        <<"D","e","s","c","r","i","p","t","i","o","n">>>>,
      <<<<"b","u","s","i","n","e","s","s","_","a","c","t","i","v","i","t","y">>,
        <<"B","u","s","i","n","e","s","s"," ","A","c","t","i","v","i","t","y">>>>,
      <<<<"m","a","r","k","e","t">>,
        <<"M","a","r","k","e","t"," ","I","n","f","o","r","m","a","t","i","o","n">>>>,
      <<<<"c","o","m","p","e","t","i","t","i","o","n">>,
        <<"C","o","m","p","e","t","i","t","i","v","e"," ","S","i","t","u","a","t","i","o","n">>>>
   >>

\* section_names.get(section_key, section_key.replace('_', ' ').title())
section_title(section_key) ==
    IF \E i \in 1..Len(section_names) : section_names[i][1] = section_key
    THEN section_names[CHOOSE i \in 1..Len(section_names) :
                           section_names[i][1] = section_key][2]
    ELSE str_title(replace(section_key, <<"_">>, <<" ">>))

\* section_content and len(section_content.strip()) > 20
MinSectionLen == 20
section_kept(section_content) ==
    Truthy(section_content) /\ Len(strip(section_content.s)) > MinSectionLen

description_text(item) ==
    Or(GetOrNone(item.full_description), Get(item.description, Str(<<>>)))

description_sections(item) ==
    IF Truthy(description_text(item))
    THEN <<Section(BusinessDescription, <<translate_text(description_text(item))>>)>>
    ELSE <<>>

RECURSIVE structured_sections(_)
structured_sections(m) ==
    IF m = <<>> THEN <<>>
    ELSE (IF section_kept(Head(m).val)
          THEN <<Section(section_title(Head(m).key),
                         <<translate_text(Head(m).val)>>)>>
          ELSE <<>>) \o structured_sections(Tail(m))

\* One "if item.get(field): items.append(f'...')" statement.
OptLine(prefix, v) ==
    IF Truthy(GetOrNone(v)) THEN <<Line(prefix, translate_text(v))>> ELSE <<>>

financial_items(item) ==
    OptLine(RevenuePrefix, item.revenue)
    \o OptLine(DetailedRevenuePrefix, item.detailed_revenue)
    \o OptLine(ProfitStatusPrefix, item.profit_status)
    \o OptLine(DetailedProfitPrefix, item.detailed_profit)
    \o (IF Truthy(GetOrNone(item.price))
        THEN <<Line(AskingPricePrefix, convert_currency(item.price))>>
        ELSE <<>>)
    \o (IF item.financial_details.k = "list" /\ item.financial_details.l # <<>>
        THEN [i \in 1..Len(item.financial_details.l) |->
                 translate_text(item.financial_details.l[i])]
        ELSE <<>>)

business_items(item) == OptLine(EmployeesPrefix, item.employee_count)

contact_items(item) ==
    (IF Truthy(GetOrNone(item.phone))
     THEN <<Line(PhonePrefix, item.phone)>> ELSE <<>>)
    \o (IF Truthy(GetOrNone(item.email))
        THEN <<Line(EmailPrefix, item.email)>> ELSE <<>>)
    \o OptLine(BrokerPrefix, item.broker_name)
    \o OptLine(BrokerCompanyPrefix, item.broker_company)

OptSection(summary, items) ==
    IF items # <<>> THEN <<Section(summary, items)>> ELSE <<>>

details_sections(item) ==
    description_sections(item)
    \o (IF item.structured_content.k = "map" /\ item.structured_content.m # <<>>
        THEN structured_sections(item.structured_content.m) ELSE <<>>)
    \o OptSection(FinancialInformation, financial_items(item))
    \o OptSection(BusinessMetrics, business_items(item))
    \o OptSection(ContactInformation, contact_items(item))

ContactViaWebsite == Str(ContactViaWebsiteText)

\* item.get('broker_company', item.get('broker_name', ''))
company_source(item) ==
    Get(item.broker_company, Get(item.broker_name, Str(<<>>)))

\* item.get('phone', 'Contact via website')
phone_number(item) == Get(item.phone, ContactViaWebsite)

transformed_item(item) ==
    [title |-> translate_text(Get(item.title, Str(<<>>))),
     company |-> translate_text(company_source(item)),
     location |-> translate_text(Get(item.location, Str(<<>>))),
     price |-> convert_currency(Get(item.price, Str(<<>>))),
     category |-> translate_text(Get(item.category, Str(<<>>))),
     industry |-> translate_text(Get(item.category, Str(<<>>))),
     link |-> Get(item.url, Str(<<>>)),
     details |-> details_sections(item),
     business_name |-> translate_text(Get(item.title, Str(<<>>))),
     contact_name |-> translate_text(Get(item.broker_name, Str(<<>>))),
     phone_number |-> phone_number(item)]

\* The calls of one loop iteration that can raise, in the order the code makes
\* them: <<whether it raises, the exception>>.
transform_calls(item) ==
    <<
      <<translate_text_raises(description_text(item)), "AttributeError">>,
      <<\E i \in 1..Len(item.structured_content.m) :
            LET v == item.structured_content.m[i].val
            IN  Truthy(v) /\ v.k # "str", "AttributeError">>,
      <<translate_text_raises(item.revenue), "AttributeError">>,
      <<translate_text_raises(item.detailed_revenue), "AttributeError">>,
      <<translate_text_raises(item.profit_status), "AttributeError">>,
      <<translate_text_raises(item.detailed_profit), "AttributeError">>,
      <<convert_currency_raises(item.price), "TypeError">>,
      <<\E i \in 1..Len(item.financial_details.l) :
            translate_text_raises(item.financial_details.l[i]), "AttributeError">>,
      <<translate_text_raises(item.employee_count), "AttributeError">>,
      <<translate_text_raises(item.broker_name), "AttributeError">>,
      <<translate_text_raises(item.broker_company), "AttributeError">>,
      <<translate_text_raises(item.title), "AttributeError">>,
      <<translate_text_raises(item.location), "AttributeError">>,
      <<translate_text_raises(item.category), "AttributeError">>
    >>

transform_raises(item) ==
    \E i \in 1..Len(transform_calls(item)) : transform_calls(item)[i][1]

transform_exception(item) ==
    LET calls == transform_calls(item)
        first == CHOOSE i \in 1..Len(calls) :
                     calls[i][1] /\ \A j \in 1..(i - 1) : ~calls[j][1]
    IN  calls[first][2]

(***************************************************************************)
(* run_scraper: the duplicate scan.                                        *)
(***************************************************************************)
NewScan == [seen_titles |-> {}, seen_links |-> {}, unique_data |-> <<>>]

\* Faulty variants of the scan step, used to test the properties below.
\* "or" for "and": kept when the title or the link is new.
scan_step_either(st, item) ==
    IF item.title \notin st.seen_titles \/ item.link \notin st.seen_links
    THEN [seen_titles |-> st.seen_titles \cup {item.title},
          seen_links |-> st.seen_links \cup {item.link},
          unique_data |-> Append(st.unique_data, item)]
    ELSE st
\* Only the title of the listing scanned last is remembered.
scan_step_last_title(st, item) ==
    IF item.title \notin st.seen_titles /\ item.link \notin st.seen_links
    THEN [seen_titles |-> {item.title},
          seen_links |-> st.seen_links \cup {item.link},
          unique_data |-> Append(st.unique_data, item)]
    ELSE [st EXCEPT !.seen_titles = {item.title}]
\* seen_links.add(link) is missing.
scan_step_no_link(st, item) ==
    IF item.title \notin st.seen_titles /\ item.link \notin st.seen_links
    THEN [seen_titles |-> st.seen_titles \cup {item.title},
          seen_links |-> st.seen_links,
          unique_data |-> Append(st.unique_data, item)]
    ELSE st

\* One iteration of "for item in transformed_data".
scan_step(st, item) ==
    LET title == item.title
        link == item.link
    IN  IF title \notin st.seen_titles /\ link \notin st.seen_links
        THEN [seen_titles |-> st.seen_titles \cup {title},
              seen_links |-> st.seen_links \cup {link},
              unique_data |-> Append(st.unique_data, item)]
        ELSE st

\* The whole scan of a list, as run_scraper makes it.
RECURSIVE scan(_, _)
scan(st, items) ==
    IF items = <<>> THEN st ELSE scan(scan_step(st, Head(items)), Tail(items))
dedupe(items) == scan(NewScan, items).unique_data

(***************************************************************************)
(* run_scraper: the function as a state machine.                           *)
(***************************************************************************)
\* What the crawl can raise before any item is collected (the imports, the
\* settings, process.crawl) and what process.start() can raise.
SetupFailures == {"ImportError", "KeyError"}
StartFailures == {"ReactorNotRestartable"}
CrawlFailures == SetupFailures \cup StartFailures

\* "except Exception": every exception raised here derives from Exception.
ExceptionClasses ==
    CrawlFailures \cup {"AttributeError", "TypeError", "ValueError"}
\* Faulty variant: "except ValueError".
catches_value_error(e) == e = "ValueError"
catches(e) == e \in ExceptionClasses

InitScraper ==
    /\ pc = "start"
    /\ exc = "none"
    /\ scraped_items = <<>>
    /\ transformed_data = <<>>
    /\ seen_titles = {}
    /\ seen_links = {}
    /\ unique_data = <<>>
    /\ scan_i = 0
    /\ result = <<>>
    /\ fn_arg = None
    /\ fn_ret = None

\* Lines 105-145: the crawl, which fills scraped_items through item_scraped.
Crawl(batches) ==
    /\ pc = "start"
    /\ \/ \E e \in SetupFailures :
            /\ exc' = e
            /\ pc' = "except"
            /\ UNCHANGED scraped_items
       \/ \E e \in StartFailures, batch \in batches :
            /\ scraped_items' = batch
            /\ exc' = e
            /\ pc' = "except"
       \/ \E batch \in batches :
            /\ scraped_items' = batch
            /\ pc' = "collected"
            /\ UNCHANGED exc
    /\ UNCHANGED <<transformed_data, seen_titles, seen_links, unique_data,
                   scan_i, result, fn_arg, fn_ret>>

\* Lines 147-258: the transformation loop and the start of the scan.
TransformAll ==
    /\ pc = "collected"
    /\ scraped_items # <<>>
    /\ LET n == Len(scraped_items)
           bad == {i \in 1..n : transform_raises(scraped_items[i])}
       IN  IF bad = {}
           THEN /\ transformed_data' =
                       [i \in 1..n |-> transformed_item(scraped_items[i])]
                /\ pc' = "dedupe"
                /\ UNCHANGED exc
           ELSE LET f == CHOOSE i \in bad : \A j \in bad : i <= j
                IN  /\ transformed_data' =
                           [i \in 1..(f - 1) |-> transformed_item(scraped_items[i])]
                    /\ exc' = transform_exception(scraped_items[f])
                    /\ pc' = "except"
    /\ seen_titles' = {}
    /\ seen_links' = {}
    /\ unique_data' = <<>>
    /\ scan_i' = 0
    /\ UNCHANGED <<scraped_items, result, fn_arg, fn_ret>>

\* Lines 260-268: one iteration of the scan.
DedupStep ==
    /\ pc = "dedupe"
    /\ scan_i < Len(transformed_data)
    /\ LET st == scan_step([seen_titles |-> seen_titles, seen_links |-> seen_links,
                            unique_data |-> unique_data],
                           transformed_data[scan_i + 1])
       IN  /\ seen_titles' = st.seen_titles
           /\ seen_links' = st.seen_links
           /\ unique_data' = st.unique_data
    /\ scan_i' = scan_i + 1
    /\ UNCHANGED <<pc, exc, scraped_items, transformed_data, result, fn_arg, fn_ret>>

\* Line 270: return unique_data.
ReturnUnique ==
    /\ pc = "dedupe"
    /\ scan_i = Len(transformed_data)
    /\ result' = unique_data
    /\ pc' = "done"
    /\ UNCHANGED <<exc, scraped_items, transformed_data, seen_titles, seen_links,
                   unique_data, scan_i, fn_arg, fn_ret>>

\* Lines 271-273: nothing was scraped.
ReturnEmpty ==
    /\ pc = "collected"
    /\ scraped_items = <<>>
    /\ result' = <<>>
    /\ pc' = "done"
    /\ UNCHANGED <<exc, scraped_items, transformed_data, seen_titles, seen_links,
                   unique_data, scan_i, fn_arg, fn_ret>>

\* Lines 275-277: the handler returns [], or the exception leaves the function.
Except ==
    /\ pc = "except"
    /\ IF catches(exc)
       THEN result' = <<>> /\ pc' = "done"
       ELSE pc' = "raised" /\ UNCHANGED result
    /\ UNCHANGED <<exc, scraped_items, transformed_data, seen_titles, seen_links,
                   unique_data, scan_i, fn_arg, fn_ret>>

(***************************************************************************)
(* Direct calls of translate_text and convert_currency.                    *)
(***************************************************************************)
InitCall(args) ==
    /\ pc = "call"
    /\ exc = "none"
    /\ fn_arg \in args
    /\ fn_ret = None
    /\ scraped_items = <<>>
    /\ transformed_data = <<>>
    /\ seen_titles = {}
    /\ seen_links = {}
    /\ unique_data = <<>>
    /\ scan_i = 0
    /\ result = <<>>

CallTranslateText ==
    /\ pc = "call"
    /\ IF translate_text_raises(fn_arg)
       THEN exc' = "AttributeError" /\ pc' = "raised" /\ UNCHANGED fn_ret
       ELSE fn_ret' = translate_text(fn_arg) /\ pc' = "returned" /\ UNCHANGED exc
    /\ UNCHANGED <<scraped_items, transformed_data, seen_titles, seen_links,
                   unique_data, scan_i, result, fn_arg>>

CallConvertCurrency ==
    /\ pc = "call"
    /\ IF convert_currency_raises(fn_arg)
       THEN exc' = "TypeError" /\ pc' = "raised" /\ UNCHANGED fn_ret
       ELSE fn_ret' = convert_currency(fn_arg) /\ pc' = "returned" /\ UNCHANGED exc
    /\ UNCHANGED <<scraped_items, transformed_data, seen_titles, seen_links,
                   unique_data, scan_i, result, fn_arg>>

(***************************************************************************)
(* Inputs explored.                                                        *)
(***************************************************************************)
\* All tuples over a set with at most n elements.
TuplesUpTo(S, n) == UNION {[1..m -> S] : m \in 0..n}

\* Texts: concatenations of at most MaxChunks of these pieces.
TextChunks ==
    {<<"b","r","a">>, <<"B","R","A">>, <<"S","t","o","r">>, <<"m","a","l","m","ö">>,
     <<" ">>, <<"x">>}
TranslateInputs ==
    {None, IntVal(<<"7">>)}
    \cup {Str(Concat(cs)) : cs \in TuplesUpTo(TextChunks, MaxChunks)}

\* Price texts: at most MaxPriceLen of these characters.
PriceChars == {"0", "1", "5", " ", "\t", "k"}
ConvertInputs ==
    {None, IntVal(<<"7">>)}
    \cup {Str(s) : s \in TuplesUpTo(PriceChars, MaxPriceLen)}

\* Scraped items for the duplicate scan: every combination of a title and a
\* url, and one item whose price is a number instead of a text.
ItemTitles == {Absent, None, Str(<<"b","r","a">>), Str(<<"B","r","a">>)}
ItemUrls == {Absent, Str(<<"u","1">>), Str(<<"u","2">>)}
CleanItems ==
    {[EmptyItem EXCEPT !.title = tt, !.url = u] : tt \in ItemTitles, u \in ItemUrls}
MalformedItems ==
    {[EmptyItem EXCEPT !.url = Str(<<"u","2">>),
                       !.price = IntVal(<<"2","0","0","0","0","0","0">>)]}
ScanBatches == TuplesUpTo(CleanItems \cup MalformedItems, MaxItems)

\* Scraped items for the transformation of one item.
Text20 == Str(<<"s","t","o","r"," ","f","i","r","m","a"," ","t","i","l","l"," ","s","a","l","u">>)
Text21 == Str(<<"s","t","o","r"," ","f","i","r","m","a"," ","t","i","l","l"," ","s","a","l","u","!">>)
Text24 == Str(<<"b","r","a"," ","v","e","r","k","s","a","m","h","e","t"," ","t","i","l","l"," ","s","a","l","u">>)
TextPadded == Str(<<"b","r","a"," "," "," "," "," "," "," "," "," "," "," "," "," "," "," "," "," "," "," "," ">>)
Entry(key, val) == [key |-> key, val |-> val]
StructuredContents ==
    {AbsentMap, Map(<<>>),
     Map(<<Entry(<<"c","o","m","p","a","n","y","_","b","r","i","e","f">>, Text21)>>),
     Map(<<Entry(<<"o","t","h","e","r","_","i","n","f","o">>, Text24),
           Entry(<<"c","o","m","p","a","n","y","_","b","r","i","e","f">>, Text21)>>),
     Map(<<Entry(<<"s","u","m","m","a","r","y">>, Text20),
           Entry(<<"m","a","r","k","e","t">>, Text24)>>),
     Map(<<Entry(<<"p","r","i","c","e","_","i","d","e","a">>, TextPadded)>>)}
FinancialDetails ==
    {AbsentList, List(<<>>), List(<<Str(<<>>)>>), List(<<Str(<<"b","r","a">>)>>),
     List(<<Str(<<>>), Str(<<"s","t","o","r">>)>>)}
DetailItems ==
    {[EmptyItem EXCEPT !.full_description = fd, !.description = d,
                       !.structured_content = sc, !.financial_details = fin,
                       !.revenue = rev, !.price = pr, !.employee_count = emp,
                       !.email = em] :
        fd \in {Absent, Str(<<>>), Str(<<"s","t","o","r">>)},
        d \in {Absent, Str(<<"b","r","a">>)},
        sc \in StructuredContents,
        fin \in FinancialDetails,
        rev \in {Absent, Str(<<"b","r","a">>)},
        pr \in {Absent, Str(<<"1","0","0"," ","k","r">>)},
        emp \in {Absent, Str(<<"5">>)},
        em \in {Absent, Str(<<"a","@","b">>)}}
ContactItems ==
    {[EmptyItem EXCEPT !.phone = ph, !.broker_name = bn, !.broker_company = bc,
                       !.title = tt] :
        ph \in {Absent, None, Str(<<>>), Str(<<"0","7","0">>)},
        bn \in {Absent, None, Str(<<"b","r","a">>)},
        bc \in {Absent, None, Str(<<>>), Str(<<"f","i","r","m","a">>)},
        tt \in {Absent, Str(<<"b","r","a">>)}}
ItemBatches == {<<>>} \cup {<<item>> : item \in DetailItems \cup ContactItems}

(***************************************************************************)
(* Specifications.                                                         *)
(***************************************************************************)
\* run_scraper over batches of items that differ in title and url.
Init == InitScraper
Next ==
    \/ Crawl(ScanBatches)
    \/ TransformAll
    \/ DedupStep
    \/ ReturnUnique
    \/ ReturnEmpty
    \/ Except
Spec == Init /\ [][Next]_vars

\* run_scraper over a single item with every group of fields varied.
NextItem ==
    \/ Crawl(ItemBatches)
    \/ TransformAll
    \/ DedupStep
    \/ ReturnUnique
    \/ ReturnEmpty
    \/ Except
SpecItem == InitScraper /\ [][NextItem]_vars

\* translate_text called on its own.
SpecTranslate == InitCall(TranslateInputs) /\ [][CallTranslateText]_vars

\* convert_currency called on its own.
SpecConvert == InitCall(ConvertInputs) /\ [][CallConvertCurrency]_vars

(***************************************************************************)
(* Properties.                                                             *)
(***************************************************************************)
Range(f) == {f[i] : i \in DOMAIN f}

\* The listings of x at the positions in K, in the order of x.
Restrict(x, K) ==
    LET pick[i \in 0..Len(x)] ==
            IF i = 0 THEN <<>>
            ELSE IF i \in K THEN Append(pick[i - 1], x[i]) ELSE pick[i - 1]
    IN  pick[Len(x)]

SameTitleOrLink(a, b) == a.title = b.title \/ a.link = b.link

NoDuplicates(x) ==
    \A i, j \in 1..Len(x) : i # j => ~SameTitleOrLink(x[i], x[j])

\* run_scraper returned from line 270: the crawl and every transformation
\* succeeded and the scan has run over transformed_data.
Scanned == pc = "done" /\ exc = "none" /\ scraped_items # <<>>

\* C1: the scan returns, in input order, exactly the listings whose title and
\* link were both unrecorded when they were scanned, where only kept listings
\* record anything: position i is kept iff no kept position before it has the
\* same title or the same link.  A list without duplicates comes back whole.
C1_ScanKeepsUnseen ==
    Scanned =>
        LET x == transformed_data
        IN  /\ \E K \in SUBSET (1..Len(x)) :
                  /\ \A i \in 1..Len(x) :
                        i \in K <=>
                            ~\E j \in K : j < i /\ SameTitleOrLink(x[i], x[j])
                  /\ result = Restrict(x, K)
            /\ NoDuplicates(x) => result = x

\* A listing was dropped although its title was new: it shares only its link
\* with a kept listing.
C1_Witness ==
    /\ Scanned
    /\ \E i \in 1..Len(transformed_data) :
          /\ transformed_data[i] \notin Range(result)
          /\ \A j \in 1..(i - 1) :
                transformed_data[j].title # transformed_data[i].title
          /\ \E j \in 1..(i - 1) :
                /\ transformed_data[j] \in Range(result)
                /\ transformed_data[j].link = transformed_data[i].link

\* C2: scanning the output of the scan again gives the same output.
C2_ScanIdempotent == Scanned => dedupe(result) = result

\* The scan dropped a listing and kept one after it, with an empty title among
\* the kept ones.
C2_Witness ==
    /\ Scanned
    /\ Len(result) >= 2
    /\ Len(result) < Len(transformed_data)
    /\ transformed_data[Len(transformed_data)] \in Range(result)
    /\ \E i \in 1..Len(result) : ~Truthy(result[i].title)

\* C3: no exception leaves run_scraper; a failed crawl or an empty crawl gives
\* [], and a non-empty return means the crawl completed with at least one item.
C3_NeverRaises ==
    /\ pc # "raised"
    /\ pc = "done" =>
          /\ (exc \in CrawlFailures \/ scraped_items = <<>>) => result = <<>>
          /\ result # <<>> => exc = "none" /\ Len(scraped_items) >= 1

\* process.start() raised after items had been collected, and [] was returned.
C3_Witness ==
    /\ pc = "done"
    /\ exc \in StartFailures
    /\ scraped_items # <<>>
    /\ result = <<>>

\* C4: after a crawl that succeeded, every scraped item has its normalized
\* listing, and each listing is in the output or duplicates a listing of the
\* output.
C4_NoRecordLost ==
    (pc = "done" /\ exc \notin CrawlFailures) =>
        /\ Len(transformed_data) = Len(scraped_items)
        /\ \A i \in 1..Len(transformed_data) :
              \E j \in 1..Len(result) :
                  SameTitleOrLink(transformed_data[i], result[j])

\* C10: after every step of the scan the seen sets are the titles and the
\* links of the kept listings, the kept listings differ pairwise in title and
\* in link, and every dropped listing shares its title or its link with a kept
\* listing before it; the output has no two listings with the same title or
\* link and is empty only for an empty input.
C10_ScanInvariant ==
    /\ pc = "dedupe" =>
          /\ seen_titles = {unique_data[i].title : i \in 1..Len(unique_data)}
          /\ seen_links = {unique_data[i].link : i \in 1..Len(unique_data)}
          /\ NoDuplicates(unique_data)
          /\ \E K \in SUBSET (1..scan_i) :
                /\ unique_data = Restrict(SubSeq(transformed_data, 1, scan_i), K)
                /\ \A i \in (1..scan_i) \ K :
                      \E j \in K :
                          j < i /\ SameTitleOrLink(transformed_data[i],
                                                   transformed_data[j])
    /\ (pc = "done" /\ exc = "none") =>
          /\ NoDuplicates(result)
          /\ result = <<>> => transformed_data = <<>>

\* In the middle of a scan, one listing has been dropped and two are kept.
C10_Witness ==
    /\ pc = "dedupe"
    /\ scan_i = 3
    /\ Len(unique_data) = 2

\* The listing and the details list of the single item of a batch.
Summaries(details) == [i \in 1..Len(details) |-> details[i].infoSummary.s]
Opt(flag, x) == IF flag THEN <<x>> ELSE <<>>
RECURSIVE KeptTitles(_)
KeptTitles(m) ==
    IF m = <<>> THEN <<>>
    ELSE Opt(section_kept(Head(m).val), section_title(Head(m).key))
         \o KeptTitles(Tail(m))
HasPrefix(s, prefix) == Len(s) >= Len(prefix) /\ SubSeq(s, 1, Len(prefix)) = prefix
HasContactLine(listing, prefix) ==
    \E i \in 1..Len(listing.details) :
        /\ listing.details[i].infoSummary.s = ContactInformation
        /\ \E j \in 1..Len(listing.details[i].infoItems) :
              HasPrefix(listing.details[i].infoItems[j].s, prefix)

\* The sections are in the fixed order: description, structured sections in
\* the order of the mapping, financial, metrics, contact.
DetailsInOrder ==
    (Scanned /\ Len(scraped_items) = 1) =>
        \E d, f, b, c \in BOOLEAN :
            Summaries(result[1].details) =
                Opt(d, BusinessDescription)
                \o KeptTitles(scraped_items[1].structured_content.m)
                \o Opt(f, FinancialInformation)
                \o Opt(b, BusinessMetrics)
                \o Opt(c, ContactInformation)

\* C5: the details list is in the fixed order, and every section in it has at
\* least one non-empty item.
C5_DetailsOrderedNonEmpty ==
    /\ DetailsInOrder
    /\ (Scanned /\ Len(scraped_items) = 1) =>
          \A i \in 1..Len(result[1].details) :
              \E j \in 1..Len(result[1].details[i].infoItems) :
                  Truthy(result[1].details[i].infoItems[j])

\* C6: translate_text of a non-empty text is the lower-cased text after all
\* substitutions, with its first character upper-cased and every other
\* character as the substitutions left it.
C6_OnlyFirstCharChanged ==
    (pc = "returned" /\ fn_arg.k = "str" /\ fn_arg.s # <<>>) =>
        LET t == ApplyTranslations(lower(fn_arg.s), 1)
        IN  fn_ret = Str([i \in 1..Len(t) |->
                             IF i = 1 THEN UpperChar(t[i]) ELSE t[i]])

\* C7: convert_currency of a non-empty text never raises; with N the integer
\* written by the digits of the text, it returns "$" and round(N * 0.095)
\* with thousands separators when the text has a digit, and the text itself
\* when it has none.
C7_ConvertsEveryDigitText ==
    (pc # "call" /\ fn_arg.k = "str" /\ fn_arg.s # <<>>) =>
        LET ds == SelectSeq(fn_arg.s, IsDigit)
        IN  /\ pc = "returned"
            /\ fn_ret = IF ds # <<>>
                        THEN Str(<<"$">> \o FormatThousands(round_usd(DigitsValue(ds))))
                        ELSE fn_arg

\* C8: phone_number is the raw phone when the Contact Information section has
\* a "Phone:" line, and "Contact via website" otherwise.
C8_PhoneNumberFallback ==
    (Scanned /\ Len(scraped_items) = 1) =>
        result[1].phone_number =
            IF HasContactLine(result[1], PhonePrefix)
            THEN scraped_items[1].phone
            ELSE ContactViaWebsite

\* C9: company is translate(broker_company) when the Contact Information
\* section has a "Broker Company:" line, and translate(broker_name) when it
\* has none and broker_name is not empty.
C9_CompanyFallback ==
    (Scanned /\ Len(scraped_items) = 1) =>
        IF HasContactLine(result[1], BrokerCompanyPrefix)
        THEN result[1].company = translate_text(scraped_items[1].broker_company)
        ELSE Truthy(scraped_items[1].broker_name) =>
                 result[1].company = translate_text(scraped_items[1].broker_name)

====
